---- MODULE Spec2Model ----
(***************************************************************************)
(* LD-Net: densely connected recurrent stack with layer-wise dropout.      *)
(* Model of model_word_ada/ldnet.py: BasicUnit (one recurrent layer) and   *)
(* LDRNN (the stack of BasicUnits).                                        *)
(*                                                                         *)
(* A tensor of shape (seq_len, batch, width) is a record                   *)
(*   [T, B, W, d]  with d a function on (1..T) \X (1..B) \X (1..W).        *)
(* Probabilities are numerators over 2: droprate 1 is p = 1/2, layer_drop  *)
(* 2 is p = 1, and random.uniform(0, 1) yields 0 or 1 (0.0 or 0.5).        *)
(***************************************************************************)
EXTENDS Integers, Sequences, FiniteSets, TLC

\* ---------------------------------------------------------------- bounds
MaxLayers == 2
MaxCalls == 2

\* the numbers of the input tensors of a session
InputNumbers == {0, 1}

\* the shapes of a session: embedding width, growth width and batch size
Shapes ==
    {[emb_dim |-> 1, hid_dim |-> 2, batch |-> 1],
     [emb_dim |-> 2, hid_dim |-> 1, batch |-> 2],
     [emb_dim |-> 2, hid_dim |-> 2, batch |-> 1]}

\* ------------------------------------------------------- external: torch
\* rnnunit_map of BasicUnit.__init__: the cell variants that can be looked up
rnnunit_map == {"rnn", "lstm", "gru"}

\* a name that is not a key of rnnunit_map
UnitNames == rnnunit_map \cup {"sru"}

\* the recurrent cells are torch's; the model gives them fixed weights and
\* integer arithmetic modulo Modulus
Modulus == 3

\* Python's None
None == <<>>

Idx(T, B, W) == (1..T) \X (1..B) \X (1..W)

\* the tensor of shape (T, B, W) with the elements d[<<t, b, f>>]
Tensor(T, B, W, d) ==
    [T |-> T, B |-> B, W |-> W, d |-> [p \in Idx(T, B, W) |-> d[p]]]

\* torch.zeros(T, B, W)
Zeros(T, B, W) ==
    Tensor(T, B, W, [p \in Idx(T, B, W) |-> 0])

\* torch.cat([a, b], 2): concatenation along the feature axis
Cat2(a, b) ==
    Tensor(a.T, a.B, a.W + b.W,
           [p \in Idx(a.T, a.B, a.W + b.W) |->
              IF p[3] <= a.W THEN a.d[p]
              ELSE b.d[<<p[1], p[2], p[3] - a.W>>]])

\* the element (t, b, f) is zeroed by the dropout mask number k:
\* mask 0 keeps every element, mask k > 0 zeroes those with k | (t + b + f)
Masked(k, t, b, f) == k > 0 /\ (t + b + f) % k = 0

\* F.dropout(x, p, training): in training each element is zeroed or scaled by
\* 1 / (1 - p); in evaluation the input is passed through
F_dropout(x, p, training, k) ==
    IF ~training THEN x
    ELSE Tensor(x.T, x.B, x.W,
                [q \in Idx(x.T, x.B, x.W) |->
                   IF Masked(k, q[1], q[2], q[3]) THEN 0
                   ELSE (x.d[q] * 2) \div (2 - p)])

RECURSIVE SumTo(_, _, _, _)
\* sum of the first n features of x at (t, b)
SumTo(x, t, b, n) ==
    IF n = 0 THEN 0 ELSE x.d[<<t, b, n>>] + SumTo(x, t, b, n - 1)

\* the state a cell starts from when it is handed None: zeros
ZeroState(unit, B, H) ==
    IF unit = "lstm"
    THEN << [q \in (1..B) \X (1..H) |-> 0], [q \in (1..B) \X (1..H) |-> 0] >>
    ELSE << [q \in (1..B) \X (1..H) |-> 0] >>

\* the state of an LSTM cell after a step: h from the new cell state c
LstmState(h, c) ==
    << [q \in DOMAIN c |-> (h[q] + c[q]) % Modulus], c >>

\* one time step of the recurrent cell (fixed weights), state -> state
CellStep(unit, x, t, st) ==
    IF unit = "lstm"
    THEN LstmState(st[1],
                   [q \in DOMAIN st[2] |->
                      (st[2][q] + SumTo(x, t, q[1], x.W) + q[2]) % Modulus])
    ELSE IF unit = "gru"
    THEN << [q \in DOMAIN st[1] |->
               (2 * st[1][q] + SumTo(x, t, q[1], x.W) + q[2]) % Modulus] >>
    ELSE << [q \in DOMAIN st[1] |->
               (st[1][q] + SumTo(x, t, q[1], x.W) + q[2]) % Modulus] >>

RECURSIVE CellStates(_, _, _, _, _)
\* the states after the time steps t..x.T appended to acc, st being the
\* state before step t
CellStates(unit, x, st, t, acc) ==
    IF t > x.T THEN acc
    ELSE CellStates(unit, x, CellStep(unit, x, t, st), t + 1,
                    Append(acc, CellStep(unit, x, t, st)))

\* what the cell returns for the states sts of the time steps: the output
\* sequence and the last state, linked to the computation history
CellResult(x, H, sts) ==
    [out |-> Tensor(x.T, x.B, H,
                    [p \in Idx(x.T, x.B, H) |-> sts[p[1]][1][<<p[2], p[3]>>]]),
     new_hidden |-> [v |-> sts[x.T], linked |-> TRUE]]

\* self.layer(new_x, hidden): nn.RNN / nn.LSTM / nn.GRU with one layer.
\* hidden is None or a stored state; None makes the cell start from zeros
Cell(unit, H, x, hidden) ==
    CellResult(x, H,
               CellStates(unit, x,
                          IF hidden = None THEN ZeroState(unit, x.B, H)
                          ELSE hidden.v,
                          1, << >>))

\* utils.repackage_hidden: the same values, detached from their history
repackage_hidden(h) == [v |-> h.v, linked |-> FALSE]

\* ------------------------------------------------------------- BasicUnit
\* faulty variant of BasicUnit_init: output_dim leaves out increase_rate
BasicUnit_init_narrow(unit, input_dim, increase_rate, droprate, layer_drop) ==
    IF unit \notin rnnunit_map
    THEN [error |-> "KeyError"]
    ELSE [error |-> "",
          unit_type |-> unit,
          layer_drop |-> layer_drop,
          droprate |-> droprate,
          input_dim |-> input_dim,
          increase_rate |-> increase_rate,
          output_dim |-> input_dim,
          hidden_state |-> None,
          training |-> TRUE]

\* BasicUnit.__init__: the unit object, or a KeyError for an unknown variant
BasicUnit_init(unit, input_dim, increase_rate, droprate, layer_drop) ==
    IF unit \notin rnnunit_map
    THEN [error |-> "KeyError"]
    ELSE [error |-> "",
          unit_type |-> unit,
          layer_drop |-> layer_drop,
          droprate |-> droprate,
          input_dim |-> input_dim,
          increase_rate |-> increase_rate,
          output_dim |-> input_dim + increase_rate,
          hidden_state |-> None,
          training |-> TRUE]

\* faulty variant of BasicUnit_init_hidden: the state is left as it is
BasicUnit_init_hidden_kept(u) == u

\* BasicUnit.init_hidden
BasicUnit_init_hidden(u) == [u EXCEPT !.hidden_state = None]

\* BasicUnit.rand_ini
BasicUnit_rand_ini(u) == u

\* new_x of BasicUnit.forward: the input after feature dropout with mask k
NewX(u, x, k) ==
    IF u.droprate > 0
    THEN F_dropout(x, u.droprate, u.training, k)
    ELSE x

\* the call draws a dropout mask from torch's generator
MaskDrawn(u) == u.droprate > 0 /\ u.training

\* faulty variant of Drew: the draw is made whatever the mode
Drew_always(u) == TRUE

\* the call evaluates random.uniform(0, 1): `and` does not evaluate its right
\* operand when self.training is false
Drew(u) == u.training

\* the condition of the layer-wise dropout, r being the uniform draw
Dropped(u, r) == u.training /\ r < u.layer_drop

\* deep_out of BasicUnit.forward; the zeros are created on the CUDA device,
\* where the stack and its input are taken to live
DeepOut(u, x, out, r) ==
    IF Dropped(u, r) THEN Zeros(x.T, x.B, u.increase_rate) ELSE out

\* faulty variant of NextHidden: a dropped layer keeps its old state
NextHidden_skipped(u, new_hidden, r) ==
    IF u.training /\ r < u.layer_drop
    THEN u.hidden_state
    ELSE repackage_hidden(new_hidden)

\* self.hidden_state after the call
NextHidden(u, new_hidden, r) == repackage_hidden(new_hidden)

\* faulty variant of O_out: the projection takes the zeroed output
O_out_zeroed(p_out, out, deep_out) == Cat2(p_out, deep_out)

\* faulty variant of O_out: the new output is put before the accumulator
O_out_reversed(p_out, out, deep_out) == Cat2(out, p_out)

\* o_out of BasicUnit.forward
O_out(p_out, out, deep_out) == Cat2(p_out, out)

\* d_out of BasicUnit.forward
D_out(x, out, deep_out) == Cat2(x, deep_out)

\* the end of BasicUnit.forward, res being what the cell returned for new_x:
\* the unit after the call and a record of the call with d_out and o_out
UnitReturn(u, x, p_out, r, new_x, res) ==
    [unit |-> [u EXCEPT !.hidden_state = NextHidden(u, res.new_hidden, r)],
     rec |-> [x |-> x, p_out |-> p_out, new_x |-> new_x,
              h0 |-> u.hidden_state, new_hidden |-> res.new_hidden,
              out |-> res.out, deep_out |-> DeepOut(u, x, res.out, r),
              d_out |-> D_out(x, res.out, DeepOut(u, x, res.out, r)),
              o_out |-> O_out(p_out, res.out, DeepOut(u, x, res.out, r)),
              dropped |-> Dropped(u, r), drew |-> Drew(u),
              masked |-> MaskDrawn(u)]]

\* the call of the cell in BasicUnit.forward
UnitCell(u, x, p_out, r, new_x) ==
    UnitReturn(u, x, p_out, r, new_x,
               Cell(u.unit_type, u.increase_rate, new_x, u.hidden_state))

\* BasicUnit.forward(x, p_out) with the dropout mask k and the uniform draw r
\* the call would consume
BasicUnit_forward(u, x, p_out, k, r) ==
    UnitCell(u, x, p_out, r, NewX(u, x, k))

\* ----------------------------------------------------------------- LDRNN
RECURSIVE Units_shifted(_, _, _, _, _, _)
\* faulty variant of Units: unit i is built for emb_dim + (i + 1) * hid_dim
Units_shifted(n, unit, emb_dim, hid_dim, droprate, layer_drop) ==
    IF n <= 0 THEN << >>
    ELSE Append(Units_shifted(n - 1, unit, emb_dim, hid_dim, droprate,
                              layer_drop),
                BasicUnit_init(unit, emb_dim + n * hid_dim, hid_dim,
                               droprate, layer_drop))

RECURSIVE Units(_, _, _, _, _, _)
\* [BasicUnit(unit, emb_dim + i * hid_dim, ...) for i in range(n)]
Units(n, unit, emb_dim, hid_dim, droprate, layer_drop) ==
    IF n <= 0 THEN << >>
    ELSE Append(Units(n - 1, unit, emb_dim, hid_dim, droprate, layer_drop),
                BasicUnit_init(unit, emb_dim + (n - 1) * hid_dim, hid_dim,
                               droprate, layer_drop))

\* LDRNN.init_hidden on a list of units
LDRNN_init_hidden(ll) == [i \in DOMAIN ll |-> BasicUnit_init_hidden(ll[i])]

\* LDRNN.rand_ini on a list of units
LDRNN_rand_ini(ll) == [i \in DOMAIN ll |-> BasicUnit_rand_ini(ll[i])]

\* the fields LDRNN.__init__ sets, ll being the units it built
LDRNN_object(n, unit, e, ll) ==
    IF \E i \in DOMAIN ll : ll[i].error # ""
    THEN [error |-> "KeyError"]
    ELSE [error |-> "",
          unit_type |-> unit,
          layer_list |-> LDRNN_init_hidden(ll),
          layer_num |-> n,
          layer |-> IF n > 0 THEN "ModuleList" ELSE "None",
          output_dim |-> IF n > 0 THEN ll[Len(ll)].output_dim ELSE e,
          emb_dim |-> e,
          training |-> TRUE]

\* LDRNN.__init__: the stack object, or the KeyError of a BasicUnit
LDRNN_init(n, unit, e, h, droprate, layer_drop) ==
    LDRNN_object(n, unit, e, Units(n, unit, e, h, droprate, layer_drop))

\* nn.Module.train(mode): the flag of the module and of its registered
\* children (self.layer = nn.ModuleList(self.layer_list))
Module_train(s, mode) ==
    [s EXCEPT !.training = mode,
              !.layer_list = [i \in DOMAIN s.layer_list |->
                                [s.layer_list[i] EXCEPT !.training = mode]]]

\* LDRNN.to_params: the summary, or the TypeError of subscripting None
LDRNN_to_params(s) ==
    IF s.layer = "None"
    THEN [error |-> "TypeError"]
    ELSE [error |-> "",
          rnn_type |-> "LDRNN",
          unit_type |-> s.layer_list[1].unit_type,
          layer_num |-> Len(s.layer_list),
          emb_dim |-> s.layer_list[1].input_dim,
          hid_dim |-> s.layer_list[1].increase_rate,
          droprate |-> s.layer_list[1].droprate,
          after_pruned |-> FALSE]

\* faulty variant of ForwardStart: the accumulator starts from zeros
ForwardStart_zeros(x) == Zeros(x.T, x.B, x.W)

\* output = x, before the loop of LDRNN.forward
ForwardStart(x) == x

\* x, output = self.layer_list[ind](x, output): the loop state p after unit
\* ind returned r
LoopAssign(p, ind, r) ==
    [layer_list |-> [p.layer_list EXCEPT ![ind + 1] = r.unit],
     x |-> r.rec.d_out,
     output |-> r.rec.o_out,
     trace |-> Append(p.trace, [ind |-> ind] @@ r.rec)]

\* the iteration ind of the loop of LDRNN.forward from the loop state p
LoopBody(p, ind, rnd) ==
    LoopAssign(p, ind,
               BasicUnit_forward(p.layer_list[ind + 1], p.x, p.output,
                                 rnd.mask[ind + 1], rnd.draw[ind + 1]))

RECURSIVE ForwardLoop(_, _, _, _)
\* the state of the loop of LDRNN.forward after the iterations ind = 0..n-1:
\* the units, the dense tensor x, the projection output and what each
\* iteration did
ForwardLoop(s, x0, n, rnd) ==
    IF n = 0
    THEN [layer_list |-> s.layer_list, x |-> x0, output |-> ForwardStart(x0),
          trace |-> << >>]
    ELSE LoopBody(ForwardLoop(s, x0, n - 1, rnd), n - 1, rnd)

\* return output, with the stack as the loop left it
ForwardReturn(s, p) ==
    [stack |-> [s EXCEPT !.layer_list = p.layer_list],
     output |-> p.output,
     trace |-> p.trace]

\* LDRNN.forward(x)
LDRNN_forward(s, x, rnd) ==
    ForwardReturn(s, ForwardLoop(s, x, s.layer_num, rnd))

\* ------------------------------------------------------------ the program
VARIABLES
    args,        \* the arguments LDRNN was constructed with
    ldrnn,       \* the LDRNN object, or the error its construction raised
    batch,       \* the batch size of the session's input tensors
    rng,         \* the number of random.uniform draws consumed so far
    trng,        \* the number of dropout masks drawn so far
    calls,       \* the number of forward calls so far
    resetSince,  \* init_hidden ran since the last forward call
    lastCall,    \* the last forward call: input, output, what each layer did
    prevCall,    \* the forward call before it
    params       \* what the last to_params call returned or raised

vars == <<args, ldrnn, batch, rng, trng, calls, resetSince, lastCall,
          prevCall, params>>

\* random.uniform(0, 1), draw number n of the seeded generator
Uniform(n) == <<0, 1, 1, 0, 0, 1>>[(n % 6) + 1]

\* the dropout mask of the draw number n of the seeded generator
MaskOf(n) == n % 3

\* what the generators hand to the units of one forward call
Rnd(r, t) ==
    [mask |-> [i \in 1..MaxLayers |-> MaskOf(t + i - 1)],
     draw |-> [i \in 1..MaxLayers |-> Uniform(r + i - 1)]]

\* the input tensor number k, of k + 1 time steps, batch size B and width W
Input(B, W, k) ==
    Tensor(k + 1, B, W,
           [p \in Idx(k + 1, B, W) |-> (k + p[1] * p[3] + p[2]) % 2])

NoCall == [made |-> FALSE]

Init ==
    /\ \E sh \in Shapes :
         /\ args \in [layer_num : 0..MaxLayers, unit : UnitNames,
                       emb_dim : {sh.emb_dim}, hid_dim : {sh.hid_dim},
                       droprate : {0, 1}, layer_drop : {0, 1, 2}]
         /\ batch = sh.batch
    /\ ldrnn = LDRNN_init(args.layer_num, args.unit, args.emb_dim,
                          args.hid_dim, args.droprate, args.layer_drop)
    /\ rng = 0
    /\ trng = 0
    /\ calls = 0
    /\ resetSince = TRUE
    /\ lastCall = NoCall
    /\ prevCall = NoCall
    /\ params = [error |-> "none"]

\* the number of uniform draws the units of a call made
DrawCount(trace) == Cardinality({i \in DOMAIN trace : trace[i].drew})

\* the number of dropout masks the units of a call drew
MaskCount(trace) == Cardinality({i \in DOMAIN trace : trace[i].masked})

\* the state after forward(x) returned r
Returned(x, r) ==
    /\ ldrnn' = r.stack
    /\ rng' = rng + DrawCount(r.trace)
    /\ trng' = trng + MaskCount(r.trace)
    /\ lastCall' = [made |-> TRUE, x |-> x, output |-> r.output,
                    trace |-> r.trace, training |-> ldrnn.training,
                    afterReset |-> resetSince,
                    before |-> ldrnn, after |-> r.stack,
                    rng |-> rng, trng |-> trng,
                    rngAfter |-> rng + DrawCount(r.trace),
                    trngAfter |-> trng + MaskCount(r.trace)]

\* output = ldrnn(x)
Call(x) == Returned(x, LDRNN_forward(ldrnn, x, Rnd(rng, trng)))

\* a forward call on an input tensor of the session
Forward ==
    /\ ldrnn.error = ""
    /\ calls < MaxCalls
    /\ \E k \in InputNumbers : Call(Input(batch, ldrnn.emb_dim, k))
    /\ prevCall' = lastCall
    /\ calls' = calls + 1
    /\ resetSince' = FALSE
    /\ UNCHANGED <<args, batch, params>>

\* ldrnn.init_hidden()
InitHidden ==
    /\ ldrnn.error = ""
    /\ ldrnn' = [ldrnn EXCEPT !.layer_list = LDRNN_init_hidden(@)]
    /\ resetSince' = TRUE
    /\ UNCHANGED <<args, batch, rng, trng, calls, lastCall, prevCall,
                   params>>

\* ldrnn.rand_ini()
RandIni ==
    /\ ldrnn.error = ""
    /\ ldrnn' = [ldrnn EXCEPT !.layer_list = LDRNN_rand_ini(@)]
    /\ UNCHANGED <<args, batch, rng, trng, calls, resetSince, lastCall,
                   prevCall, params>>

\* ldrnn.to_params()
ToParams ==
    /\ ldrnn.error = ""
    /\ params' = LDRNN_to_params(ldrnn)
    /\ UNCHANGED <<args, ldrnn, batch, rng, trng, calls, resetSince, lastCall,
                   prevCall>>

\* ldrnn.train()
Train ==
    /\ ldrnn.error = ""
    /\ ldrnn' = Module_train(ldrnn, TRUE)
    /\ UNCHANGED <<args, batch, rng, trng, calls, resetSince, lastCall,
                   prevCall, params>>

\* ldrnn.eval()
Eval ==
    /\ ldrnn.error = ""
    /\ ldrnn' = Module_train(ldrnn, FALSE)
    /\ UNCHANGED <<args, batch, rng, trng, calls, resetSince, lastCall,
                   prevCall, params>>

Next == Forward \/ InitHidden \/ RandIni \/ ToParams \/ Train \/ Eval

Spec == Init /\ [][Next]_vars

\* ------------------------------------------------------------- properties
\* the stack a fresh construction with the same arguments yields
Fresh ==
    LDRNN_init(args.layer_num, args.unit, args.emb_dim, args.hid_dim,
               args.droprate, args.layer_drop)

\* the features lo..hi of a tensor (x[:, :, lo-1:hi])
Slice(a, lo, hi) ==
    Tensor(a.T, a.B, hi - lo + 1,
           [p \in Idx(a.T, a.B, hi - lo + 1) |->
              a.d[<<p[1], p[2], p[3] + lo - 1>>]])

\* E + L * H for the constructor's arguments
FinalWidth == args.emb_dim + args.layer_num * args.hid_dim

Constructed == ldrnn.error = ""

Called == Constructed /\ lastCall.made

\* the slice of the projection output that layer number i (1-based) added
ProjectionSlice(t, i) ==
    Slice(t, args.emb_dim + (i - 1) * args.hid_dim + 1,
          args.emb_dim + i * args.hid_dim)

\* C1: the declared output_dim and the feature width of the tensor forward
\* returns both equal E + L*H (E when L = 0), in either mode and whatever
\* layers are dropped.
Thm_C1 ==
    Constructed =>
      /\ ldrnn.output_dim = FinalWidth
      /\ lastCall.made =>
            /\ lastCall.output.W = FinalWidth
            /\ DOMAIN lastCall.output.d =
                 Idx(lastCall.x.T, lastCall.x.B, FinalWidth)

Witness_C1 ==
    /\ Called
    /\ args.layer_num >= 2
    /\ args.hid_dim >= 2
    /\ lastCall.training
    /\ \E i \in DOMAIN lastCall.trace : lastCall.trace[i].dropped
    /\ lastCall.output.W = FinalWidth

\* C2: with layer-drop probability 1 in training mode every layer is dropped:
\* the last growth-width features of its dense output are zero, the next
\* layer receives that dense output, and the projection returned by the stack
\* holds the raw output of every layer.
Thm_C2 ==
    (Called /\ lastCall.training /\ args.layer_drop = 2) =>
      \A i \in DOMAIN lastCall.trace :
        LET e == lastCall.trace[i]
        IN /\ e.dropped
           /\ Slice(e.d_out, e.x.W + 1, e.x.W + args.hid_dim)
                = Zeros(e.x.T, e.x.B, args.hid_dim)
           /\ i < Len(lastCall.trace) => lastCall.trace[i + 1].x = e.d_out
           /\ ProjectionSlice(lastCall.output, i) = e.out

Witness_C2 ==
    /\ Called
    /\ lastCall.training
    /\ args.layer_drop = 2
    /\ args.layer_num >= 2
    /\ \A i \in DOMAIN lastCall.trace :
         /\ lastCall.trace[i].out
              # Zeros(lastCall.x.T, lastCall.x.B, args.hid_dim)
         /\ ProjectionSlice(lastCall.output, i) = lastCall.trace[i].out

\* C3: a forward call that follows another forward call with no init_hidden
\* in between starts every layer from the detached new state its cell
\* produced in the earlier call, never from None, also for a layer that was
\* dropped in the earlier call.
Thm_C3 ==
    (Called /\ prevCall.made /\ ~lastCall.afterReset) =>
      \A i \in DOMAIN lastCall.trace :
        LET h0 == lastCall.trace[i].h0
        IN /\ h0 # None
           /\ h0 = repackage_hidden(prevCall.trace[i].new_hidden)
           /\ h0.v = prevCall.trace[i].new_hidden.v
           /\ ~h0.linked

Witness_C3 ==
    /\ Called
    /\ prevCall.made
    /\ ~lastCall.afterReset
    /\ args.layer_num >= 2
    /\ \E i \in DOMAIN prevCall.trace :
         /\ prevCall.trace[i].dropped
         /\ lastCall.trace[i].h0 # None
         /\ lastCall.trace[i].h0.v # ZeroState(args.unit, batch, args.hid_dim)

\* C4: init_hidden sets the hidden state of every unit to None, and the
\* forward call that follows it returns what the same call (same input, mode
\* and random draws) returns on a freshly constructed stack.
Thm_C4 ==
    Constructed =>
      /\ resetSince =>
            \A i \in DOMAIN ldrnn.layer_list :
              ldrnn.layer_list[i].hidden_state = None
      /\ (lastCall.made /\ lastCall.afterReset) =>
            lastCall.output =
              LDRNN_forward(Module_train(Fresh, lastCall.training), lastCall.x,
                            Rnd(lastCall.rng, lastCall.trng)).output

Witness_C4 ==
    /\ Called
    /\ prevCall.made
    /\ lastCall.afterReset
    /\ args.layer_num >= 2
    /\ \A i \in DOMAIN prevCall.after.layer_list :
         /\ prevCall.after.layer_list[i].hidden_state # None
         /\ lastCall.trace[i].h0 = None

\* C5: a stack of zero layers returns its input unchanged, in either mode,
\* consumes no random draw and changes no state.
Thm_C5 ==
    (Called /\ args.layer_num = 0) =>
      /\ lastCall.output = lastCall.x
      /\ lastCall.after = lastCall.before
      /\ lastCall.rngAfter = lastCall.rng
      /\ lastCall.trngAfter = lastCall.trng

Witness_C5 ==
    /\ Called
    /\ args.layer_num = 0
    /\ prevCall.made
    /\ lastCall.training /\ ~prevCall.training
    /\ args.layer_drop = 2 /\ args.droprate = 1
    /\ lastCall.output = lastCall.x

\* C6: the first emb_dim features of the output of forward are the input,
\* and the o_out of every unit has its p_out as a prefix along the feature
\* axis, whatever is dropped.
Thm_C6 ==
    Called =>
      /\ Slice(lastCall.output, 1, args.emb_dim) = lastCall.x
      /\ \A i \in DOMAIN lastCall.trace :
           LET e == lastCall.trace[i]
           IN Slice(e.o_out, 1, e.p_out.W) = e.p_out

Witness_C6 ==
    /\ Called
    /\ args.layer_num >= 2
    /\ lastCall.training
    /\ \E i \in DOMAIN lastCall.trace : lastCall.trace[i].dropped
    /\ lastCall.trace[1].masked
    /\ lastCall.trace[2].new_x # lastCall.trace[2].x
    /\ Slice(lastCall.output, 1, args.emb_dim) = lastCall.x

\* the calls C7 is about: evaluation mode, no feature dropout, no layer drop
EvalNoDropout(c) ==
    /\ Constructed
    /\ args.droprate = 0
    /\ args.layer_drop = 0
    /\ c.made
    /\ ~c.training

\* C7 as stated: in evaluation mode without dropout, two forward calls with
\* the same input return the same output.
Cex_C7 ==
    (EvalNoDropout(lastCall) /\ EvalNoDropout(prevCall)
       /\ lastCall.x = prevCall.x) =>
      lastCall.output = prevCall.output

\* C7 as amended: in evaluation mode without dropout a forward call consumes
\* no random draw, and two calls with the same input that start from the same
\* hidden states return the same output.
Thm_C7 ==
    EvalNoDropout(lastCall) =>
      /\ lastCall.rngAfter = lastCall.rng
      /\ lastCall.trngAfter = lastCall.trng
      /\ \A i \in DOMAIN lastCall.trace :
           ~lastCall.trace[i].drew /\ ~lastCall.trace[i].masked
      /\ (EvalNoDropout(prevCall) /\ lastCall.x = prevCall.x
            /\ lastCall.before = prevCall.before) =>
           lastCall.output = prevCall.output

Witness_C7 ==
    /\ EvalNoDropout(lastCall)
    /\ EvalNoDropout(prevCall)
    /\ lastCall.x = prevCall.x
    /\ lastCall.before = prevCall.before
    /\ args.layer_num >= 2
    /\ lastCall.x.T >= 2
    /\ lastCall.output = prevCall.output

\* C8 as stated: construction with a cell variant outside rnn, lstm, gru
\* fails with a KeyError for every layer count, so no stack with such a
\* variant exists and forward is never called on one.
Cex_C8 ==
    args.unit \notin rnnunit_map =>
      /\ ldrnn.error = "KeyError"
      /\ ~lastCall.made

\* C9 as stated: for every constructed stack, to_params returns the cell
\* variant, layer count, embedding width, growth width and feature dropout
\* rate of the construction, with after_pruned false.
Cex_C9 ==
    (Constructed /\ params.error # "none") =>
      /\ params.error = ""
      /\ params.unit_type = args.unit
      /\ params.layer_num = args.layer_num
      /\ params.emb_dim = ldrnn.emb_dim
      /\ params.emb_dim = args.emb_dim
      /\ params.hid_dim = args.hid_dim
      /\ params.droprate = args.droprate
      /\ params.after_pruned = FALSE

\* C10: within one forward call the units run in depth order 0..L-1, each
\* once; unit i is handed the d_out of unit i-1 (x for unit 0), whose width
\* emb_dim + i * hid_dim is the input_dim unit i was constructed with.
Thm_C10 ==
    Called =>
      /\ Len(lastCall.trace) = args.layer_num
      /\ \A i \in DOMAIN lastCall.trace :
           LET e == lastCall.trace[i]
           IN /\ e.ind = i - 1
              /\ e.x = IF i = 1 THEN lastCall.x ELSE lastCall.trace[i - 1].d_out
              /\ e.x.W = args.emb_dim + (i - 1) * args.hid_dim
              /\ e.x.W = lastCall.before.layer_list[i].input_dim
              /\ e.new_x.W = lastCall.before.layer_list[i].input_dim

Witness_C10 ==
    /\ Called
    /\ args.layer_num >= 2
    /\ args.hid_dim >= 2
    /\ lastCall.trace[2].ind = 1
    /\ lastCall.trace[2].x = lastCall.trace[1].d_out
    /\ lastCall.trace[2].x.W = lastCall.before.layer_list[2].input_dim

====
